---- MODULE Spec2Model ----
(***************************************************************************)
(* Guarded read-only query gateway of mcp-sql-server.                      *)
(*                                                                         *)
(* Two programs are modelled, each over its own store file:                *)
(*   "http"  : main.py, POST /mcp -> mcp_tool_handler over coding_data.db  *)
(*   "stdio" : sqlite_mcp_server.py, handle_call_tool / handle_read_resource*)
(*             over DATABASE_PATH                                          *)
(* Query texts are sequences of code points, so that strip(), lower(),     *)
(* startswith() and the `in` substring test are computed.                  *)
(* The embedded engine (sqlite3) is modelled on a fixed set of statements  *)
(* over the sample dataset (table users, seeded with two rows).            *)
(***************************************************************************)
EXTENDS Integers, Sequences, FiniteSets, TLC

VARIABLES variant, proc, db, open, last, memo

vars == <<variant, proc, db, open, last, memo>>

\* The connections left open by calls, and not finalised yet, are counted
\* exactly up to MaxOpen; of a larger number only that it is larger is
\* kept.
MaxOpen == 2

Variants == {"http", "stdio"}

----------------------------------------------------------------------------
(* Text: str.strip(), str.lower(), str.startswith(), `kw in text`, +       *)

\* A text is the sequence of the code points of its characters (str, over
\* U+0000 to U+10FFFF), so that every character a str can hold is a value
\* here. The texts below are written with the ASCII characters U+0020 to
\* U+005F and U+0061 to U+007E, listed in code point order.
AsciiLow ==
    <<" ", "!", "\"", "#", "$", "%", "&", "'", "(", ")", "*", "+", ",", "-", ".", "/", "0", "1", "2", "3", "4", "5", "6", "7", "8", "9", ":", ";", "<", "=", ">", "?",
      "@", "A", "B", "C", "D", "E", "F", "G", "H", "I", "J", "K", "L", "M", "N", "O", "P", "Q", "R", "S", "T", "U", "V", "W", "X", "Y", "Z", "[", "\\", "]", "^", "_">>

AsciiHigh ==
    <<"a", "b", "c", "d", "e", "f", "g", "h", "i", "j", "k", "l", "m", "n", "o", "p", "q", "r", "s", "t", "u", "v", "w", "x", "y", "z", "{", "|", "}", "~">>

\* ord(ch)
Ord(ch) ==
    IF \E i \in 1..Len(AsciiLow) : AsciiLow[i] = ch
    THEN 31 + (CHOOSE i \in 1..Len(AsciiLow) : AsciiLow[i] = ch)
    ELSE 96 + (CHOOSE i \in 1..Len(AsciiHigh) : AsciiHigh[i] = ch)

\* The text written with the characters s
Text(s) == [i \in 1..Len(s) |-> Ord(s[i])]

\* The characters str.strip() removes (those for which str.isspace() holds):
\* U+0009 to U+000D, U+001C to U+0020, U+0085, U+00A0, U+1680, U+2000 to
\* U+200A, U+2028, U+2029, U+202F, U+205F and U+3000.
Whitespace ==
    (9..13) \cup (28..32) \cup {133, 160, 5760} \cup (8192..8202)
        \cup {8232, 8233, 8239, 8287, 12288}

\* The characters that str.lower() replaces by one other character when
\* they stand alone, as runs <<first, last, step, offset>>: every step-th
\* character from first to last becomes the character offset further on.
LowerRuns ==
    << <<65, 90, 1, 32>>, <<192, 214, 1, 32>>, <<216, 222, 1, 32>>, <<256, 302, 2, 1>>,
       <<306, 310, 2, 1>>, <<313, 327, 2, 1>>, <<330, 374, 2, 1>>, <<376, 376, 1, -121>>,
       <<377, 381, 2, 1>>, <<385, 385, 1, 210>>, <<386, 388, 2, 1>>, <<390, 390, 1, 206>>,
       <<391, 391, 1, 1>>, <<393, 394, 1, 205>>, <<395, 395, 1, 1>>, <<398, 398, 1, 79>>,
       <<399, 399, 1, 202>>, <<400, 400, 1, 203>>, <<401, 401, 1, 1>>, <<403, 403, 1, 205>>,
       <<404, 404, 1, 207>>, <<406, 406, 1, 211>>, <<407, 407, 1, 209>>, <<408, 408, 1, 1>>,
       <<412, 412, 1, 211>>, <<413, 413, 1, 213>>, <<415, 415, 1, 214>>, <<416, 420, 2, 1>>,
       <<422, 422, 1, 218>>, <<423, 423, 1, 1>>, <<425, 425, 1, 218>>, <<428, 428, 1, 1>>,
       <<430, 430, 1, 218>>, <<431, 431, 1, 1>>, <<433, 434, 1, 217>>, <<435, 437, 2, 1>>,
       <<439, 439, 1, 219>>, <<440, 440, 1, 1>>, <<444, 444, 1, 1>>, <<452, 452, 1, 2>>,
       <<453, 453, 1, 1>>, <<455, 455, 1, 2>>, <<456, 456, 1, 1>>, <<458, 458, 1, 2>>,
       <<459, 475, 2, 1>>, <<478, 494, 2, 1>>, <<497, 497, 1, 2>>, <<498, 500, 2, 1>>,
       <<502, 502, 1, -97>>, <<503, 503, 1, -56>>, <<504, 542, 2, 1>>, <<544, 544, 1, -130>>,
       <<546, 562, 2, 1>>, <<570, 570, 1, 10795>>, <<571, 571, 1, 1>>, <<573, 573, 1, -163>>,
       <<574, 574, 1, 10792>>, <<577, 577, 1, 1>>, <<579, 579, 1, -195>>, <<580, 580, 1, 69>>,
       <<581, 581, 1, 71>>, <<582, 590, 2, 1>>, <<880, 882, 2, 1>>, <<886, 886, 1, 1>>,
       <<895, 895, 1, 116>>, <<902, 902, 1, 38>>, <<904, 906, 1, 37>>, <<908, 908, 1, 64>>,
       <<910, 911, 1, 63>>, <<913, 929, 1, 32>>, <<931, 939, 1, 32>>, <<975, 975, 1, 8>>,
       <<984, 1006, 2, 1>>, <<1012, 1012, 1, -60>>, <<1015, 1015, 1, 1>>, <<1017, 1017, 1, -7>>,
       <<1018, 1018, 1, 1>>, <<1021, 1023, 1, -130>>, <<1024, 1039, 1, 80>>, <<1040, 1071, 1, 32>>,
       <<1120, 1152, 2, 1>>, <<1162, 1214, 2, 1>>, <<1216, 1216, 1, 15>>, <<1217, 1229, 2, 1>>,
       <<1232, 1326, 2, 1>>, <<1329, 1366, 1, 48>>, <<4256, 4293, 1, 7264>>, <<4295, 4295, 1, 7264>>,
       <<4301, 4301, 1, 7264>>, <<5024, 5103, 1, 38864>>, <<5104, 5109, 1, 8>>, <<7312, 7354, 1, -3008>>,
       <<7357, 7359, 1, -3008>>, <<7680, 7828, 2, 1>>, <<7838, 7838, 1, -7615>>, <<7840, 7934, 2, 1>>,
       <<7944, 7951, 1, -8>>, <<7960, 7965, 1, -8>>, <<7976, 7983, 1, -8>>, <<7992, 7999, 1, -8>>,
       <<8008, 8013, 1, -8>>, <<8025, 8031, 2, -8>>, <<8040, 8047, 1, -8>>, <<8072, 8079, 1, -8>>,
       <<8088, 8095, 1, -8>>, <<8104, 8111, 1, -8>>, <<8120, 8121, 1, -8>>, <<8122, 8123, 1, -74>>,
       <<8124, 8124, 1, -9>>, <<8136, 8139, 1, -86>>, <<8140, 8140, 1, -9>>, <<8152, 8153, 1, -8>>,
       <<8154, 8155, 1, -100>>, <<8168, 8169, 1, -8>>, <<8170, 8171, 1, -112>>, <<8172, 8172, 1, -7>>,
       <<8184, 8185, 1, -128>>, <<8186, 8187, 1, -126>>, <<8188, 8188, 1, -9>>, <<8486, 8486, 1, -7517>>,
       <<8490, 8490, 1, -8383>>, <<8491, 8491, 1, -8262>>, <<8498, 8498, 1, 28>>, <<8544, 8559, 1, 16>>,
       <<8579, 8579, 1, 1>>, <<9398, 9423, 1, 26>>, <<11264, 11311, 1, 48>>, <<11360, 11360, 1, 1>>,
       <<11362, 11362, 1, -10743>>, <<11363, 11363, 1, -3814>>, <<11364, 11364, 1, -10727>>, <<11367, 11371, 2, 1>>,
       <<11373, 11373, 1, -10780>>, <<11374, 11374, 1, -10749>>, <<11375, 11375, 1, -10783>>, <<11376, 11376, 1, -10782>>,
       <<11378, 11378, 1, 1>>, <<11381, 11381, 1, 1>>, <<11390, 11391, 1, -10815>>, <<11392, 11490, 2, 1>>,
       <<11499, 11501, 2, 1>>, <<11506, 11506, 1, 1>>, <<42560, 42604, 2, 1>>, <<42624, 42650, 2, 1>>,
       <<42786, 42798, 2, 1>>, <<42802, 42862, 2, 1>>, <<42873, 42875, 2, 1>>, <<42877, 42877, 1, -35332>>,
       <<42878, 42886, 2, 1>>, <<42891, 42891, 1, 1>>, <<42893, 42893, 1, -42280>>, <<42896, 42898, 2, 1>>,
       <<42902, 42920, 2, 1>>, <<42922, 42922, 1, -42308>>, <<42923, 42923, 1, -42319>>, <<42924, 42924, 1, -42315>>,
       <<42925, 42925, 1, -42305>>, <<42926, 42926, 1, -42308>>, <<42928, 42928, 1, -42258>>, <<42929, 42929, 1, -42282>>,
       <<42930, 42930, 1, -42261>>, <<42931, 42931, 1, 928>>, <<42932, 42946, 2, 1>>, <<42948, 42948, 1, -48>>,
       <<42949, 42949, 1, -42307>>, <<42950, 42950, 1, -35384>>, <<42951, 42953, 2, 1>>, <<42960, 42960, 1, 1>>,
       <<42966, 42968, 2, 1>>, <<42997, 42997, 1, 1>>, <<65313, 65338, 1, 32>>, <<66560, 66599, 1, 40>>,
       <<66736, 66771, 1, 40>>, <<66928, 66938, 1, 39>>, <<66940, 66954, 1, 39>>, <<66956, 66962, 1, 39>>,
       <<66964, 66965, 1, 39>>, <<68736, 68786, 1, 64>>, <<71840, 71871, 1, 32>>, <<93760, 93791, 1, 32>>,
       <<125184, 125217, 1, 34>> >>

\* The cased characters (upper-case, lower-case or title-case), as ranges
\* <<first, last>>.
CasedRanges ==
    << <<65, 90>>, <<97, 122>>, <<170, 170>>, <<181, 181>>, <<186, 186>>, <<192, 214>>,
       <<216, 246>>, <<248, 442>>, <<444, 447>>, <<452, 659>>, <<661, 696>>, <<704, 705>>,
       <<736, 740>>, <<837, 837>>, <<880, 883>>, <<886, 887>>, <<890, 893>>, <<895, 895>>,
       <<902, 902>>, <<904, 906>>, <<908, 908>>, <<910, 929>>, <<931, 1013>>, <<1015, 1153>>,
       <<1162, 1327>>, <<1329, 1366>>, <<1376, 1416>>, <<4256, 4293>>, <<4295, 4295>>, <<4301, 4301>>,
       <<4304, 4346>>, <<4349, 4351>>, <<5024, 5109>>, <<5112, 5117>>, <<7296, 7304>>, <<7312, 7354>>,
       <<7357, 7359>>, <<7424, 7615>>, <<7680, 7957>>, <<7960, 7965>>, <<7968, 8005>>, <<8008, 8013>>,
       <<8016, 8023>>, <<8025, 8025>>, <<8027, 8027>>, <<8029, 8029>>, <<8031, 8061>>, <<8064, 8116>>,
       <<8118, 8124>>, <<8126, 8126>>, <<8130, 8132>>, <<8134, 8140>>, <<8144, 8147>>, <<8150, 8155>>,
       <<8160, 8172>>, <<8178, 8180>>, <<8182, 8188>>, <<8305, 8305>>, <<8319, 8319>>, <<8336, 8348>>,
       <<8450, 8450>>, <<8455, 8455>>, <<8458, 8467>>, <<8469, 8469>>, <<8473, 8477>>, <<8484, 8484>>,
       <<8486, 8486>>, <<8488, 8488>>, <<8490, 8493>>, <<8495, 8500>>, <<8505, 8505>>, <<8508, 8511>>,
       <<8517, 8521>>, <<8526, 8526>>, <<8544, 8575>>, <<8579, 8580>>, <<9398, 9449>>, <<11264, 11492>>,
       <<11499, 11502>>, <<11506, 11507>>, <<11520, 11557>>, <<11559, 11559>>, <<11565, 11565>>, <<42560, 42605>>,
       <<42624, 42653>>, <<42786, 42887>>, <<42891, 42894>>, <<42896, 42954>>, <<42960, 42961>>, <<42963, 42963>>,
       <<42965, 42969>>, <<42997, 42998>>, <<43000, 43002>>, <<43824, 43866>>, <<43868, 43880>>, <<43888, 43967>>,
       <<64256, 64262>>, <<64275, 64279>>, <<65313, 65338>>, <<65345, 65370>>, <<66560, 66639>>, <<66736, 66771>>,
       <<66776, 66811>>, <<66928, 66938>>, <<66940, 66954>>, <<66956, 66962>>, <<66964, 66965>>, <<66967, 66977>>,
       <<66979, 66993>>, <<66995, 67001>>, <<67003, 67004>>, <<67456, 67456>>, <<67459, 67461>>, <<67463, 67504>>,
       <<67506, 67514>>, <<68736, 68786>>, <<68800, 68850>>, <<71840, 71903>>, <<93760, 93823>>, <<119808, 119892>>,
       <<119894, 119964>>, <<119966, 119967>>, <<119970, 119970>>, <<119973, 119974>>, <<119977, 119980>>, <<119982, 119993>>,
       <<119995, 119995>>, <<119997, 120003>>, <<120005, 120069>>, <<120071, 120074>>, <<120077, 120084>>, <<120086, 120092>>,
       <<120094, 120121>>, <<120123, 120126>>, <<120128, 120132>>, <<120134, 120134>>, <<120138, 120144>>, <<120146, 120485>>,
       <<120488, 120512>>, <<120514, 120538>>, <<120540, 120570>>, <<120572, 120596>>, <<120598, 120628>>, <<120630, 120654>>,
       <<120656, 120686>>, <<120688, 120712>>, <<120714, 120744>>, <<120746, 120770>>, <<120772, 120779>>, <<122624, 122633>>,
       <<122635, 122654>>, <<125184, 125251>>, <<127280, 127305>>, <<127312, 127337>>, <<127344, 127369>> >>

\* The case-ignorable characters (marks, modifier letters and symbols,
\* format characters, word-internal punctuation), as ranges <<first, last>>.
CaseIgnorableRanges ==
    << <<39, 39>>, <<46, 46>>, <<58, 58>>, <<94, 94>>, <<96, 96>>, <<168, 168>>,
       <<173, 173>>, <<175, 175>>, <<180, 180>>, <<183, 184>>, <<688, 879>>, <<884, 885>>,
       <<890, 890>>, <<900, 901>>, <<903, 903>>, <<1155, 1161>>, <<1369, 1369>>, <<1375, 1375>>,
       <<1425, 1469>>, <<1471, 1471>>, <<1473, 1474>>, <<1476, 1477>>, <<1479, 1479>>, <<1524, 1524>>,
       <<1536, 1541>>, <<1552, 1562>>, <<1564, 1564>>, <<1600, 1600>>, <<1611, 1631>>, <<1648, 1648>>,
       <<1750, 1757>>, <<1759, 1768>>, <<1770, 1773>>, <<1807, 1807>>, <<1809, 1809>>, <<1840, 1866>>,
       <<1958, 1968>>, <<2027, 2037>>, <<2042, 2042>>, <<2045, 2045>>, <<2070, 2093>>, <<2137, 2139>>,
       <<2184, 2184>>, <<2192, 2193>>, <<2200, 2207>>, <<2249, 2306>>, <<2362, 2362>>, <<2364, 2364>>,
       <<2369, 2376>>, <<2381, 2381>>, <<2385, 2391>>, <<2402, 2403>>, <<2417, 2417>>, <<2433, 2433>>,
       <<2492, 2492>>, <<2497, 2500>>, <<2509, 2509>>, <<2530, 2531>>, <<2558, 2558>>, <<2561, 2562>>,
       <<2620, 2620>>, <<2625, 2626>>, <<2631, 2632>>, <<2635, 2637>>, <<2641, 2641>>, <<2672, 2673>>,
       <<2677, 2677>>, <<2689, 2690>>, <<2748, 2748>>, <<2753, 2757>>, <<2759, 2760>>, <<2765, 2765>>,
       <<2786, 2787>>, <<2810, 2815>>, <<2817, 2817>>, <<2876, 2876>>, <<2879, 2879>>, <<2881, 2884>>,
       <<2893, 2893>>, <<2901, 2902>>, <<2914, 2915>>, <<2946, 2946>>, <<3008, 3008>>, <<3021, 3021>>,
       <<3072, 3072>>, <<3076, 3076>>, <<3132, 3132>>, <<3134, 3136>>, <<3142, 3144>>, <<3146, 3149>>,
       <<3157, 3158>>, <<3170, 3171>>, <<3201, 3201>>, <<3260, 3260>>, <<3263, 3263>>, <<3270, 3270>>,
       <<3276, 3277>>, <<3298, 3299>>, <<3328, 3329>>, <<3387, 3388>>, <<3393, 3396>>, <<3405, 3405>>,
       <<3426, 3427>>, <<3457, 3457>>, <<3530, 3530>>, <<3538, 3540>>, <<3542, 3542>>, <<3633, 3633>>,
       <<3636, 3642>>, <<3654, 3662>>, <<3761, 3761>>, <<3764, 3772>>, <<3782, 3782>>, <<3784, 3789>>,
       <<3864, 3865>>, <<3893, 3893>>, <<3895, 3895>>, <<3897, 3897>>, <<3953, 3966>>, <<3968, 3972>>,
       <<3974, 3975>>, <<3981, 3991>>, <<3993, 4028>>, <<4038, 4038>>, <<4141, 4144>>, <<4146, 4151>>,
       <<4153, 4154>>, <<4157, 4158>>, <<4184, 4185>>, <<4190, 4192>>, <<4209, 4212>>, <<4226, 4226>>,
       <<4229, 4230>>, <<4237, 4237>>, <<4253, 4253>>, <<4348, 4348>>, <<4957, 4959>>, <<5906, 5908>>,
       <<5938, 5939>>, <<5970, 5971>>, <<6002, 6003>>, <<6068, 6069>>, <<6071, 6077>>, <<6086, 6086>>,
       <<6089, 6099>>, <<6103, 6103>>, <<6109, 6109>>, <<6155, 6159>>, <<6211, 6211>>, <<6277, 6278>>,
       <<6313, 6313>>, <<6432, 6434>>, <<6439, 6440>>, <<6450, 6450>>, <<6457, 6459>>, <<6679, 6680>>,
       <<6683, 6683>>, <<6742, 6742>>, <<6744, 6750>>, <<6752, 6752>>, <<6754, 6754>>, <<6757, 6764>>,
       <<6771, 6780>>, <<6783, 6783>>, <<6823, 6823>>, <<6832, 6862>>, <<6912, 6915>>, <<6964, 6964>>,
       <<6966, 6970>>, <<6972, 6972>>, <<6978, 6978>>, <<7019, 7027>>, <<7040, 7041>>, <<7074, 7077>>,
       <<7080, 7081>>, <<7083, 7085>>, <<7142, 7142>>, <<7144, 7145>>, <<7149, 7149>>, <<7151, 7153>>,
       <<7212, 7219>>, <<7222, 7223>>, <<7288, 7293>>, <<7376, 7378>>, <<7380, 7392>>, <<7394, 7400>>,
       <<7405, 7405>>, <<7412, 7412>>, <<7416, 7417>>, <<7468, 7530>>, <<7544, 7544>>, <<7579, 7679>>,
       <<8125, 8125>>, <<8127, 8129>>, <<8141, 8143>>, <<8157, 8159>>, <<8173, 8175>>, <<8189, 8190>>,
       <<8203, 8207>>, <<8216, 8217>>, <<8228, 8228>>, <<8231, 8231>>, <<8234, 8238>>, <<8288, 8292>>,
       <<8294, 8303>>, <<8305, 8305>>, <<8319, 8319>>, <<8336, 8348>>, <<8400, 8432>>, <<11388, 11389>>,
       <<11503, 11505>>, <<11631, 11631>>, <<11647, 11647>>, <<11744, 11775>>, <<11823, 11823>>, <<12293, 12293>>,
       <<12330, 12333>>, <<12337, 12341>>, <<12347, 12347>>, <<12441, 12446>>, <<12540, 12542>>, <<40981, 40981>>,
       <<42232, 42237>>, <<42508, 42508>>, <<42607, 42610>>, <<42612, 42621>>, <<42623, 42623>>, <<42652, 42655>>,
       <<42736, 42737>>, <<42752, 42785>>, <<42864, 42864>>, <<42888, 42890>>, <<42994, 42996>>, <<43000, 43001>>,
       <<43010, 43010>>, <<43014, 43014>>, <<43019, 43019>>, <<43045, 43046>>, <<43052, 43052>>, <<43204, 43205>>,
       <<43232, 43249>>, <<43263, 43263>>, <<43302, 43309>>, <<43335, 43345>>, <<43392, 43394>>, <<43443, 43443>>,
       <<43446, 43449>>, <<43452, 43453>>, <<43471, 43471>>, <<43493, 43494>>, <<43561, 43566>>, <<43569, 43570>>,
       <<43573, 43574>>, <<43587, 43587>>, <<43596, 43596>>, <<43632, 43632>>, <<43644, 43644>>, <<43696, 43696>>,
       <<43698, 43700>>, <<43703, 43704>>, <<43710, 43711>>, <<43713, 43713>>, <<43741, 43741>>, <<43756, 43757>>,
       <<43763, 43764>>, <<43766, 43766>>, <<43867, 43871>>, <<43881, 43883>>, <<44005, 44005>>, <<44008, 44008>>,
       <<44013, 44013>>, <<64286, 64286>>, <<64434, 64450>>, <<65024, 65039>>, <<65043, 65043>>, <<65056, 65071>>,
       <<65106, 65106>>, <<65109, 65109>>, <<65279, 65279>>, <<65287, 65287>>, <<65294, 65294>>, <<65306, 65306>>,
       <<65342, 65342>>, <<65344, 65344>>, <<65392, 65392>>, <<65438, 65439>>, <<65507, 65507>>, <<65529, 65531>>,
       <<66045, 66045>>, <<66272, 66272>>, <<66422, 66426>>, <<67456, 67461>>, <<67463, 67504>>, <<67506, 67514>>,
       <<68097, 68099>>, <<68101, 68102>>, <<68108, 68111>>, <<68152, 68154>>, <<68159, 68159>>, <<68325, 68326>>,
       <<68900, 68903>>, <<69291, 69292>>, <<69446, 69456>>, <<69506, 69509>>, <<69633, 69633>>, <<69688, 69702>>,
       <<69744, 69744>>, <<69747, 69748>>, <<69759, 69761>>, <<69811, 69814>>, <<69817, 69818>>, <<69821, 69821>>,
       <<69826, 69826>>, <<69837, 69837>>, <<69888, 69890>>, <<69927, 69931>>, <<69933, 69940>>, <<70003, 70003>>,
       <<70016, 70017>>, <<70070, 70078>>, <<70089, 70092>>, <<70095, 70095>>, <<70191, 70193>>, <<70196, 70196>>,
       <<70198, 70199>>, <<70206, 70206>>, <<70367, 70367>>, <<70371, 70378>>, <<70400, 70401>>, <<70459, 70460>>,
       <<70464, 70464>>, <<70502, 70508>>, <<70512, 70516>>, <<70712, 70719>>, <<70722, 70724>>, <<70726, 70726>>,
       <<70750, 70750>>, <<70835, 70840>>, <<70842, 70842>>, <<70847, 70848>>, <<70850, 70851>>, <<71090, 71093>>,
       <<71100, 71101>>, <<71103, 71104>>, <<71132, 71133>>, <<71219, 71226>>, <<71229, 71229>>, <<71231, 71232>>,
       <<71339, 71339>>, <<71341, 71341>>, <<71344, 71349>>, <<71351, 71351>>, <<71453, 71455>>, <<71458, 71461>>,
       <<71463, 71467>>, <<71727, 71735>>, <<71737, 71738>>, <<71995, 71996>>, <<71998, 71998>>, <<72003, 72003>>,
       <<72148, 72151>>, <<72154, 72155>>, <<72160, 72160>>, <<72193, 72202>>, <<72243, 72248>>, <<72251, 72254>>,
       <<72263, 72263>>, <<72273, 72278>>, <<72281, 72283>>, <<72330, 72342>>, <<72344, 72345>>, <<72752, 72758>>,
       <<72760, 72765>>, <<72767, 72767>>, <<72850, 72871>>, <<72874, 72880>>, <<72882, 72883>>, <<72885, 72886>>,
       <<73009, 73014>>, <<73018, 73018>>, <<73020, 73021>>, <<73023, 73029>>, <<73031, 73031>>, <<73104, 73105>>,
       <<73109, 73109>>, <<73111, 73111>>, <<73459, 73460>>, <<78896, 78904>>, <<92912, 92916>>, <<92976, 92982>>,
       <<92992, 92995>>, <<94031, 94031>>, <<94095, 94111>>, <<94176, 94177>>, <<94179, 94180>>, <<110576, 110579>>,
       <<110581, 110587>>, <<110589, 110590>>, <<113821, 113822>>, <<113824, 113827>>, <<118528, 118573>>, <<118576, 118598>>,
       <<119143, 119145>>, <<119155, 119170>>, <<119173, 119179>>, <<119210, 119213>>, <<119362, 119364>>, <<121344, 121398>>,
       <<121403, 121452>>, <<121461, 121461>>, <<121476, 121476>>, <<121499, 121503>>, <<121505, 121519>>, <<122880, 122886>>,
       <<122888, 122904>>, <<122907, 122913>>, <<122915, 122916>>, <<122918, 122922>>, <<123184, 123197>>, <<123566, 123566>>,
       <<123628, 123631>>, <<125136, 125142>>, <<125252, 125259>>, <<127995, 127999>>, <<917505, 917505>>, <<917536, 917631>>,
       <<917760, 917999>> >>

InRun(c, r) == r[1] <= c /\ c <= r[2] /\ (c - r[1]) % r[3] = 0

InRanges(c, rs) == \E k \in 1..Len(rs) : rs[k][1] <= c /\ c <= rs[k][2]

Cased(c) == InRanges(c, CasedRanges)

CaseIgnorable(c) == InRanges(c, CaseIgnorableRanges)

\* str.lower() of the one-character text <<c>>. The capital I with dot
\* above (U+0130) becomes two characters, i and the combining dot (U+0307).
LowerChar(c) ==
    IF c < 128 THEN IF c \in 65..90 THEN <<c + 32>> ELSE <<c>>
    ELSE IF c = 304 THEN <<105, 775>>
    ELSE IF \E k \in 1..Len(LowerRuns) : InRun(c, LowerRuns[k])
    THEN <<c + LowerRuns[CHOOSE k \in 1..Len(LowerRuns) : InRun(c, LowerRuns[k])][4]>>
    ELSE <<c>>

\* What str.lower() makes of the capital sigma (U+03A3) at position i of
\* s: the final small sigma (U+03C2) when a cased character stands before
\* it and none after it, case-ignorable characters skipped on both sides;
\* the small sigma (U+03C3) otherwise
LowerSigma(s, i) ==
    LET before == {j \in 1..(i - 1) : ~CaseIgnorable(s[j])}
        after  == {j \in (i + 1)..Len(s) : ~CaseIgnorable(s[j])}
        prev   == CHOOSE j \in before : \A k \in before : k <= j
        next   == CHOOSE j \in after : \A k \in after : j <= k
        final  == /\ before # {}
                  /\ Cased(s[prev])
                  /\ (after = {} \/ ~Cased(s[next]))
    IN  IF final THEN 962 ELSE 963

\* What str.lower() makes of the character at position i of s
LowerAt(s, i) ==
    IF s[i] = 931 THEN <<LowerSigma(s, i)>> ELSE LowerChar(s[i])

RECURSIVE LowerFrom(_, _)
LowerFrom(s, i) ==
    IF i > Len(s) THEN <<>> ELSE LowerAt(s, i) \o LowerFrom(s, i + 1)

\* str.lower(); a text of ASCII characters alone is mapped character by
\* character
ToLower(s) ==
    IF \A i \in 1..Len(s) : s[i] < 128
    THEN [i \in 1..Len(s) |-> LowerChar(s[i])[1]]
    ELSE LowerFrom(s, 1)

\* str.strip(): leading and trailing whitespace removed
Strip(s) ==
    LET keep == {i \in 1..Len(s) : s[i] \notin Whitespace}
    IN  IF keep = {} THEN <<>>
        ELSE SubSeq(s, CHOOSE i \in keep : \A k \in keep : i <= k,
                       CHOOSE j \in keep : \A k \in keep : k <= j)

\* str.startswith(p)
StartsWith(s, p) == Len(s) >= Len(p) /\ SubSeq(s, 1, Len(p)) = p

\* `kw in s` on strings: kw occurs as a substring of s
Contains(s, kw) ==
    \E i \in 1..(Len(s) - Len(kw) + 1) : SubSeq(s, i, i + Len(kw) - 1) = kw

\* 'select'
KwSelect ==
    Text(<<"s", "e", "l", "e", "c", "t">>)

\* ['drop', 'delete', 'truncate', 'alter', 'create', 'pragma']
dangerous_keywords ==
    << Text(<<"d", "r", "o", "p">>),
       Text(<<"d", "e", "l", "e", "t", "e">>),
       Text(<<"t", "r", "u", "n", "c", "a", "t", "e">>),
       Text(<<"a", "l", "t", "e", "r">>),
       Text(<<"c", "r", "e", "a", "t", "e">>),
       Text(<<"p", "r", "a", "g", "m", "a">>) >>

\* main.py: query.strip().lower().startswith("select")
HttpAllowed(q) == StartsWith(ToLower(Strip(q)), KwSelect)

\* sqlite_mcp_server.py: the early return of _execute_query, taken when some
\* dangerous keyword occurs in the text and the text does not start with
\* select
StdioDenied(q) ==
    LET query_lower == Strip(ToLower(q))
    IN  /\ \E k \in 1..Len(dangerous_keywords) :
               Contains(query_lower, dangerous_keywords[k])
        /\ ~StartsWith(query_lower, KwSelect)

----------------------------------------------------------------------------
(* The statements explored.                                                *)

\* 'SELECT name FROM users'
QSelectNames ==
    Text(<<"S", "E", "L", "E", "C", "T", " ", "n", "a", "m", "e", " ", "F", "R", "O", "M", " ", "u", "s", "e", "r", "s">>)
\* ' select 1'
QSelectPadded ==
    Text(<<" ", "s", "e", "l", "e", "c", "t", " ", "1">>)
\* 'DELETE FROM users'
QDeleteUsers ==
    Text(<<"D", "E", "L", "E", "T", "E", " ", "F", "R", "O", "M", " ", "u", "s", "e", "r", "s">>)
\* "INSERT INTO users (name, email) VALUES ('a', 'b')"
QInsertUser ==
    Text(<<"I", "N", "S", "E", "R", "T", " ", "I", "N", "T", "O", " ", "u", "s", "e", "r", "s", " ", "(", "n", "a", "m", "e", ",", " ", "e", "m", "a", "i", "l", ")", " ", "V", "A", "L", "U", "E", "S", " ", "(", "'", "a", "'", ",", " ", "'", "b", "'", ")">>)
\* "UPDATE users SET name = 'x'"
QUpdateUsers ==
    Text(<<"U", "P", "D", "A", "T", "E", " ", "u", "s", "e", "r", "s", " ", "S", "E", "T", " ", "n", "a", "m", "e", " ", "=", " ", "'", "x", "'">>)
\* 'SELECT * FROM nope'
QSelectMissing ==
    Text(<<"S", "E", "L", "E", "C", "T", " ", "*", " ", "F", "R", "O", "M", " ", "n", "o", "p", "e">>)
\* 'SELECT 1 AS a, 2 AS a'
QSelectDup ==
    Text(<<"S", "E", "L", "E", "C", "T", " ", "1", " ", "A", "S", " ", "a", ",", " ", "2", " ", "A", "S", " ", "a">>)
\* 'SELECT abs(random() % 2) AS r'
QSelectRandom ==
    Text(<<"S", "E", "L", "E", "C", "T", " ", "a", "b", "s", "(", "r", "a", "n", "d", "o", "m", "(", ")", " ", "%", " ", "2", ")", " ", "A", "S", " ", "r">>)
\* 'SELECT 1; DROP TABLE users'
QSelectThenDrop ==
    Text(<<"S", "E", "L", "E", "C", "T", " ", "1", ";", " ", "D", "R", "O", "P", " ", "T", "A", "B", "L", "E", " ", "u", "s", "e", "r", "s">>)
\* '\x0cSELECT 'drop'' (a leading form feed)
QSelectFormFeed ==
    <<12>> \o Text(<<"S", "E", "L", "E", "C", "T", " ", "'", "d", "r", "o", "p", "'">>)
\* 'SELECT 1 AS A, 2 AS a, 3 AS a'
QSelectMixedCase ==
    Text(<<"S", "E", "L", "E", "C", "T", " ", "1", " ", "A", "S", " ", "A", ",", " ", "2", " ", "A", "S", " ", "a", ",", " ", "3", " ", "A", "S", " ", "a">>)
\* 'SELECT 1 AS \xc9, 2 AS \xe9' (the capital and the small e with acute,
\* U+00C9 and U+00E9)
QSelectAccent ==
    Text(<<"S", "E", "L", "E", "C", "T", " ", "1", " ", "A", "S", " ">>) \o <<201>>
    \o Text(<<",", " ", "2", " ", "A", "S", " ">>) \o <<233>>
\* '\xa0select 1' (a leading no-break space, U+00A0)
QSelectNoBreak ==
    <<160>> \o Text(<<"s", "e", "l", "e", "c", "t", " ", "1">>)
\* '' (also the default of .get("query", ""))
QEmpty == <<>>

Texts ==
    { QSelectNames, QSelectPadded, QDeleteUsers, QInsertUser, QUpdateUsers,
      QSelectMissing, QSelectDup, QSelectRandom, QSelectThenDrop,
      QSelectMixedCase, QSelectAccent, QSelectFormFeed, QSelectNoBreak,
      QEmpty }

\* 'users', 'posts', 'nope', 'sqlite_sequence'
TUsers == Text(<<"u", "s", "e", "r", "s">>)
TPosts == Text(<<"p", "o", "s", "t", "s">>)
TNope == Text(<<"n", "o", "p", "e">>)
TSequence ==
    Text(<<"s", "q", "l", "i", "t", "e", "_", "s", "e", "q", "u", "e", "n", "c", "e">>)

\* f"SELECT * FROM {table_name} LIMIT {limit}"
SampleHead ==
    Text(<<"S", "E", "L", "E", "C", "T", " ", "*", " ", "F", "R", "O", "M", " ">>)
SampleLimit ==
    Text(<<" ", "L", "I", "M", "I", "T", " ">>)

\* str(n) of a non-negative integer; the digits are U+0030 to U+0039
RECURSIVE IntText(_)
IntText(n) ==
    IF n < 10 THEN <<48 + n>>
    ELSE IntText(n \div 10) \o <<48 + (n % 10)>>

SampleQuery(table_name, limit) ==
    SampleHead \o table_name \o SampleLimit \o IntText(limit)

----------------------------------------------------------------------------
(* The store file and the embedded engine.                                 *)

\* The rows both bootstraps seed (the HTTP variant loads a downloaded
\* script; it is taken to hold the same sample dataset).
SeedUsers ==
    << [id |-> 1, name |-> "John Doe", email |-> "john@example.com",
        created_at |-> "CURRENT_TIMESTAMP"],
       [id |-> 2, name |-> "Jane Smith", email |-> "jane@example.com",
        created_at |-> "CURRENT_TIMESTAMP"] >>

SeedPosts ==
    << [id |-> 1, user_id |-> 1, title |-> "First Post",
        content |-> "This is my first post!",
        created_at |-> "CURRENT_TIMESTAMP"],
       [id |-> 2, user_id |-> 2, title |-> "Hello World",
        content |-> "Hello from Jane!",
        created_at |-> "CURRENT_TIMESTAMP"] >>

\* No file at the store path. `seeded` records that a bootstrap ran to its
\* end on this file.
NoFile ==
    [exists |-> FALSE, tables |-> {}, users |-> <<>>, posts |-> <<>>,
     seeded |-> FALSE]

\* The committed contents of a store file, as a query can observe them.
Contents(s) == [tables |-> s.tables, users |-> s.users, posts |-> s.posts]

\* The column names of a result are texts: cursor.description[i][0].
UsersCols ==
    << Text(<<"i", "d">>), Text(<<"n", "a", "m", "e">>),
       Text(<<"e", "m", "a", "i", "l">>),
       Text(<<"c", "r", "e", "a", "t", "e", "d", "_", "a", "t">>) >>
PostsCols ==
    << Text(<<"i", "d">>), Text(<<"u", "s", "e", "r", "_", "i", "d">>),
       Text(<<"t", "i", "t", "l", "e">>),
       Text(<<"c", "o", "n", "t", "e", "n", "t">>),
       Text(<<"c", "r", "e", "a", "t", "e", "d", "_", "a", "t">>) >>

UserTuple(u) == <<u.id, u.name, u.email, u.created_at>>
PostTuple(p) == <<p.id, p.user_id, p.title, p.content, p.created_at>>

MinOf(a, b) == IF a <= b THEN a ELSE b

SampleTables == {TUsers, TPosts, TNope}
SampleLimits == {1, 2, 10}

EngineError(s, m) ==
    [ok |-> FALSE, msg |-> m, hasDesc |-> FALSE, desc |-> <<>>,
     rows |-> <<>>, users |-> s.users, rowcount |-> -1]

EngineRows(s, cols, rs) ==
    [ok |-> TRUE, msg |-> "", hasDesc |-> TRUE, desc |-> cols, rows |-> rs,
     users |-> s.users, rowcount |-> -1]

EngineDone(s, us, n) ==
    [ok |-> TRUE, msg |-> "", hasDesc |-> FALSE, desc |-> <<>>,
     rows |-> <<>>, users |-> us, rowcount |-> n]

\* The values random() may produce for abs(random() % 2).
RandomValues == {0, 1}

\* cursor.execute(query) followed by cursor.fetchall(), on the store s: the
\* set of results the engine may produce. `users` is the content of the
\* users table inside the connection's transaction, committed or not by
\* the caller.
Execute(q, s) ==
    IF q = QEmpty THEN { EngineDone(s, s.users, -1) }
    ELSE IF q = QSelectPadded
    THEN { EngineRows(s, <<Text(<<"1">>)>>, << <<1>> >>) }
    ELSE IF q = QSelectDup
    THEN { EngineRows(s, <<Text(<<"a">>), Text(<<"a">>)>>, << <<1, 2>> >>) }
    ELSE IF q = QSelectMixedCase
    THEN { EngineRows(s, <<Text(<<"A">>), Text(<<"a">>), Text(<<"a">>)>>,
                      << <<1, 2, 3>> >>) }
    ELSE IF q = QSelectAccent
    THEN { EngineRows(s, << <<201>>, <<233>> >>, << <<1, 2>> >>) }
    ELSE IF q = QSelectFormFeed
    THEN { EngineRows(s, <<Text(<<"'", "d", "r", "o", "p", "'">>)>>,
                      << <<"drop">> >>) }
    \* the engine quotes the token it stopped at: the message holds the
    \* no-break space (U+00A0) as the character itself, before `select`
    ELSE IF q = QSelectNoBreak
    THEN { EngineError(s, "near \" select\": syntax error") }
    ELSE IF q = QSelectRandom
    THEN { EngineRows(s, <<Text(<<"r">>)>>, << <<v>> >>) : v \in RandomValues }
    ELSE IF q = QSelectThenDrop
    THEN { EngineError(s, "You can only execute one statement at a time.") }
    ELSE IF q = QSelectMissing THEN { EngineError(s, "no such table: nope") }
    ELSE IF q = QSelectNames
    THEN IF "users" \in s.tables
         THEN { EngineRows(s, <<Text(<<"n", "a", "m", "e">>)>>,
                    [i \in 1..Len(s.users) |-> <<s.users[i].name>>]) }
         ELSE { EngineError(s, "no such table: users") }
    ELSE IF q = QDeleteUsers
    THEN IF "users" \in s.tables
         THEN { EngineDone(s, <<>>, Len(s.users)) }
         ELSE { EngineError(s, "no such table: users") }
    ELSE IF q = QUpdateUsers
    THEN IF "users" \in s.tables
         THEN { EngineDone(s,
                    [i \in 1..Len(s.users) |-> [s.users[i] EXCEPT !.name = "x"]],
                    Len(s.users)) }
         ELSE { EngineError(s, "no such table: users") }
    ELSE IF q = QInsertUser
    THEN IF "users" \notin s.tables
         THEN { EngineError(s, "no such table: users") }
         ELSE IF \E i \in 1..Len(s.users) : s.users[i].email = "b"
         THEN { EngineError(s, "UNIQUE constraint failed: users.email") }
         ELSE { EngineDone(s,
                    Append(s.users,
                        [id |-> Len(s.users) + 1, name |-> "a", email |-> "b",
                         created_at |-> "CURRENT_TIMESTAMP"]),
                    1) }
    ELSE IF \E n \in SampleLimits : q = SampleQuery(TUsers, n)
    THEN LET n == CHOOSE n \in SampleLimits : q = SampleQuery(TUsers, n)
         IN  IF "users" \in s.tables
             THEN { EngineRows(s, UsersCols,
                        [i \in 1..MinOf(n, Len(s.users)) |-> UserTuple(s.users[i])]) }
             ELSE { EngineError(s, "no such table: users") }
    ELSE IF \E n \in SampleLimits : q = SampleQuery(TPosts, n)
    THEN LET n == CHOOSE n \in SampleLimits : q = SampleQuery(TPosts, n)
         IN  IF "posts" \in s.tables
             THEN { EngineRows(s, PostsCols,
                        [i \in 1..MinOf(n, Len(s.posts)) |-> PostTuple(s.posts[i])]) }
             ELSE { EngineError(s, "no such table: posts") }
    ELSE IF \E n \in SampleLimits : q = SampleQuery(TNope, n)
    THEN { EngineError(s, "no such table: nope") }
    ELSE { EngineError(s, "syntax error") }

\* Positions of the column name c in the description cols.
Positions(cols, c) == {i \in 1..Len(cols) : cols[i] = c}

First(S) == CHOOSE i \in S : \A k \in S : i <= k
Latest(S) == CHOOSE i \in S : \A k \in S : k <= i

ColumnNames(cols) == {cols[i] : i \in 1..Len(cols)}

\* FetchAll with a fault: the rows come back in either order.
FetchAllAnyOrder(r) ==
    { r.rows, [i \in 1..Len(r.rows) |-> r.rows[Len(r.rows) + 1 - i]] }

\* rows = cursor.fetchall(): all rows, in the engine's iteration order
FetchAll(r) == { r.rows }

\* A text of ASCII characters alone.
IsAscii(t) == \A i \in 1..Len(t) : t[i] < 128

\* The lower case of an ASCII letter, any other character unchanged.
AsciiLower(c) == IF c \in 65..90 THEN c + 32 ELSE c

\* How sqlite3.Row compares a key with a column name: equal, or both of
\* ASCII characters alone, of the same length, and equal once the ASCII
\* letters are lower-cased.
EqualIgnoreCase(left, right) ==
    \/ left = right
    \/ /\ IsAscii(left)
       /\ IsAscii(right)
       /\ Len(left) = Len(right)
       /\ \A i \in 1..Len(left) : AsciiLower(left[i]) = AsciiLower(right[i])

\* The columns of the description cols that row[c] of a sqlite3.Row may
\* answer with.
RowPositions(cols, c) ==
    {i \in 1..Len(cols) : EqualIgnoreCase(c, cols[i])}

\* DictRow with a fault: the right-most column of a name gives its value.
DictRowLatest(cols, row) ==
    [c \in ColumnNames(cols) |-> row[Latest(RowPositions(cols, c))]]

\* sqlite_mcp_server.py: dict(row) over sqlite3.Row. The keys are the column
\* names, row.keys(); row[name] goes through the columns from the left and
\* returns the first whose name compares equal to it.
DictRow(cols, row) ==
    [c \in ColumnNames(cols) |-> row[First(RowPositions(cols, c))]]

\* main.py: dict(zip(cols, row)). The pairs are stored left to right, a
\* later pair replacing an earlier one with the same key.
DictZip(cols, row) ==
    [c \in ColumnNames(cols) |-> row[Latest(Positions(cols, c))]]

\* main.py: cols = [desc[0] ...] if cursor.description else [];
\* result = [dict(zip(cols, row)) for row in rows] if cols else []
HttpResult(r, rows) ==
    LET cols == IF r.hasDesc THEN r.desc ELSE <<>>
    IN  IF cols # <<>>
        THEN [i \in 1..Len(rows) |-> DictZip(cols, rows[i])]
        ELSE <<>>

\* sqlite_mcp_server.py: result = [dict(row) for row in rows]
StdioResult(r, rows) == [i \in 1..Len(rows) |-> DictRow(r.desc, rows[i])]

----------------------------------------------------------------------------
(* sqlite_mcp_server.py: the stdio variant's operations. An outcome records *)
(* what the call returned (`kind`, `value`), the path that produced it     *)
(* (`cause`), the connections it opened and closed before returning,       *)
(* whether the caller's statement was handed to the engine, and the users  *)
(* rows committed to the store when it returned. `status` is the HTTP      *)
(* status of the HTTP variant's responses (0: none).                       *)

Outcome(k, val, c, o, cl, h, us, hq, q) ==
    [kind |-> k, value |-> val, cause |-> c, opened |-> o, closed |-> cl,
     handed |-> h, users |-> us, hasQuery |-> hq, query |-> q, status |-> 0]

\* The value of the early return of _execute_query (lines 132-135).
DeniedValue(q) ==
    [error |-> "Only SELECT queries are allowed for safety", query |-> q]

\* The value returned from `except sqlite3.Error` (lines 164-167).
ErrorValue(m, q) == [error |-> m, query |-> q]

\* ExecuteQuery with a fault: the connection is opened (and closed) before
\* the keyword test.
ExecuteQueryConnectFirst(q, s) ==
    IF StdioDenied(q)
    THEN { Outcome("dict", DeniedValue(q), "denied", 1, 1, FALSE, s.users, TRUE, q) }
    ELSE LET Returned(r) ==
                 IF ~r.ok
                 THEN { Outcome("dict", ErrorValue(r.msg, q), "engine_error",
                                1, 1, TRUE, s.users, TRUE, q) }
                 ELSE IF StartsWith(Strip(ToLower(q)), KwSelect)
                 THEN { Outcome("dict",
                                [success |-> TRUE,
                                 data |-> StdioResult(r, rows),
                                 row_count |-> Len(StdioResult(r, rows))],
                                "rows", 1, 1, TRUE, s.users, TRUE, q)
                        : rows \in FetchAll(r) }
                 ELSE { Outcome("dict",
                                [success |-> TRUE, rows_affected |-> r.rowcount],
                                "written", 1, 1, TRUE, r.users, TRUE, q) }
         IN  UNION { Returned(r) : r \in Execute(q, s) }

\* SQLiteMCPServer._execute_query(query) with no params. The connection is
\* opened inside try and closed in finally; a statement that is not
\* select-prefixed is committed.
ExecuteQuery(q, s) ==
    IF StdioDenied(q)
    THEN { Outcome("dict", DeniedValue(q), "denied", 0, 0, FALSE, s.users, TRUE, q) }
    ELSE LET Returned(r) ==
                 IF ~r.ok
                 THEN { Outcome("dict", ErrorValue(r.msg, q), "engine_error",
                                1, 1, TRUE, s.users, TRUE, q) }
                 ELSE IF StartsWith(Strip(ToLower(q)), KwSelect)
                 THEN { Outcome("dict",
                                [success |-> TRUE,
                                 data |-> StdioResult(r, rows),
                                 row_count |-> Len(StdioResult(r, rows))],
                                "rows", 1, 1, TRUE, s.users, TRUE, q)
                        : rows \in FetchAll(r) }
                 ELSE { Outcome("dict",
                                [success |-> TRUE, rows_affected |-> r.rowcount],
                                "written", 1, 1, TRUE, r.users, TRUE, q) }
         IN  UNION { Returned(r) : r \in Execute(q, s) }

Column(n, t, nullable, d, pk) ==
    [name |-> n, type |-> t, nullable |-> nullable, default |-> d,
     primary_key |-> pk]

ForeignKey(c, rt, rc) ==
    [column |-> c, references_table |-> rt, references_column |-> rc]

\* The entry _get_database_schema builds for one table from
\* PRAGMA table_info and PRAGMA foreign_key_list.
TableInfo(t) ==
    IF t = TUsers
    THEN [columns |-> << Column("id", "INTEGER", TRUE, "null", TRUE),
                         Column("name", "TEXT", FALSE, "null", FALSE),
                         Column("email", "TEXT", FALSE, "null", FALSE),
                         Column("created_at", "TIMESTAMP", TRUE,
                                "CURRENT_TIMESTAMP", FALSE) >>,
          foreign_keys |-> <<>>]
    ELSE IF t = TPosts
    THEN [columns |-> << Column("id", "INTEGER", TRUE, "null", TRUE),
                         Column("user_id", "INTEGER", TRUE, "null", FALSE),
                         Column("title", "TEXT", FALSE, "null", FALSE),
                         Column("content", "TEXT", TRUE, "null", FALSE),
                         Column("created_at", "TIMESTAMP", TRUE,
                                "CURRENT_TIMESTAMP", FALSE) >>,
          foreign_keys |-> << ForeignKey("user_id", "users", "id") >>]
    ELSE [columns |-> << Column("name", "", TRUE, "null", FALSE),
                         Column("seq", "", TRUE, "null", FALSE) >>,
          foreign_keys |-> <<>>]

\* SELECT name FROM sqlite_master WHERE type='table': the tables created,
\* and sqlite_sequence once an AUTOINCREMENT table exists.
TableNames(s) ==
    (IF "users" \in s.tables THEN {TUsers, TSequence} ELSE {})
    \cup (IF "posts" \in s.tables THEN {TPosts, TSequence} ELSE {})

\* SQLiteMCPServer._get_database_schema: one connection, opened and closed.
GetDatabaseSchema(s) ==
    [schema |-> [t \in TableNames(s) |-> TableInfo(t)], opened |-> 1,
     closed |-> 1]

\* f"Table '{table_name}' not found"
NotFoundMessage(t) ==
    Text(<<"T", "a", "b", "l", "e", " ", "'">>)
    \o t
    \o Text(<<"'", " ", "n", "o", "t", " ", "f", "o", "u", "n", "d">>)

\* The tool names: 'execute_query', 'get_table_info', 'sample_data', and
\* 'query_sql', which the stdio variant does not implement.
NExecuteQuery ==
    Text(<<"e", "x", "e", "c", "u", "t", "e", "_", "q", "u", "e", "r", "y">>)
NGetTableInfo ==
    Text(<<"g", "e", "t", "_", "t", "a", "b", "l", "e", "_", "i", "n", "f", "o">>)
NSampleData ==
    Text(<<"s", "a", "m", "p", "l", "e", "_", "d", "a", "t", "a">>)
NQuerySql ==
    Text(<<"q", "u", "e", "r", "y", "_", "s", "q", "l">>)

\* f"Unknown tool: {name}"
UnknownToolMessage(name) ==
    Text(<<"U", "n", "k", "n", "o", "w", "n", " ", "t", "o", "o", "l", ":", " ">>)
    \o name

\* The tool names a caller may send.
ToolNames == {NExecuteQuery, NGetTableInfo, NSampleData, NQuerySql}

\* The arguments of a tool call: `dict` is false for an arguments value that
\* is no mapping (None); qt says whether "query" is absent, not a string, or
\* the string `text`; `table` is table_name ("" when absent); limit 0 stands
\* for an absent limit.
NoArgs ==
    [dict |-> TRUE, qt |-> "missing", text |-> QEmpty, table |-> QEmpty,
     limit |-> 0]

StdioArguments(name) ==
    IF name = NExecuteQuery
    THEN { [NoArgs EXCEPT !.dict = FALSE], NoArgs,
           [NoArgs EXCEPT !.qt = "nonstr"] }
         \cup { [NoArgs EXCEPT !.qt = "str", !.text = t] : t \in Texts }
    ELSE IF name = NGetTableInfo
    THEN { [NoArgs EXCEPT !.table = t] : t \in {TUsers, TPosts, TNope, QEmpty} }
    ELSE IF name = NSampleData
    THEN { [NoArgs EXCEPT !.table = t, !.limit = n] :
               t \in SampleTables, n \in SampleLimits \cup {0} }
    ELSE { NoArgs, [NoArgs EXCEPT !.dict = FALSE] }

\* What `except Exception` of handle_call_tool returns: {"error": str(e)}.
Caught(m, s) ==
    Outcome("TextContent", [error |-> m], "caught", 0, 0, FALSE, s.users,
            FALSE, QEmpty)

\* json.dumps(result) wrapped in [types.TextContent(type="text", text=...)]
AsTextContent(o) == [o EXCEPT !.kind = "TextContent"]

\* handle_call_tool(name, arguments) on the store s: the set of outcomes.
HandleCallTool(name, a, s) ==
    IF name = NExecuteQuery
    THEN IF ~a.dict
         THEN { Caught("'NoneType' object has no attribute 'get'", s) }
         ELSE IF a.qt = "nonstr"
         THEN { Caught("'int' object has no attribute 'lower'", s) }
         ELSE LET query == IF a.qt = "missing" THEN QEmpty ELSE a.text
              IN  { AsTextContent(o) : o \in ExecuteQuery(query, s) }
    ELSE IF name = NGetTableInfo
    THEN IF ~a.dict
         THEN { Caught("'NoneType' object has no attribute 'get'", s) }
         ELSE LET g == GetDatabaseSchema(s)
              IN  IF a.table \in DOMAIN g.schema
                  THEN { Outcome("TextContent", g.schema[a.table], "table_info",
                                 g.opened, g.closed, FALSE, s.users, FALSE, QEmpty) }
                  ELSE { Outcome("TextContent",
                                 [error |-> NotFoundMessage(a.table)], "not_found",
                                 g.opened, g.closed, FALSE, s.users, FALSE, QEmpty) }
    ELSE IF name = NSampleData
    THEN IF ~a.dict
         THEN { Caught("'NoneType' object has no attribute 'get'", s) }
         ELSE LET limit == IF a.limit = 0 THEN 10 ELSE a.limit
                  query == SampleQuery(a.table, limit)
              IN  { AsTextContent(o) : o \in ExecuteQuery(query, s) }
    ELSE { Outcome("TextContent", [error |-> UnknownToolMessage(name)], "unsupported",
                   0, 0, FALSE, s.users, FALSE, QEmpty) }

ResourceUris == {"sqlite:///schema", "sqlite:///tables", "sqlite:///other"}

\* handle_read_resource(uri): the schema, the table list, or ValueError
\* raised to the caller.
HandleReadResource(uri, s) ==
    IF uri = "sqlite:///schema"
    THEN LET g == GetDatabaseSchema(s)
         IN  Outcome("text", [schema |-> g.schema], "schema", g.opened,
                     g.closed, FALSE, s.users, FALSE, QEmpty)
    ELSE IF uri = "sqlite:///tables"
    THEN Outcome("text", [tables |-> TableNames(s)], "tables", 1, 1, FALSE,
                 s.users, FALSE, QEmpty)
    ELSE Outcome("fault", [exception |-> "ValueError"], "fault", 0, 0, FALSE,
                 s.users, FALSE, QEmpty)

----------------------------------------------------------------------------
(* main.py: the HTTP variant's handler.                                    *)

\* The JSON bodies explored. tc says whether "tool_call" is absent, no
\* object, or an object with `name`; inp the same for "input"; qt whether
\* "query" is absent, not a string, or the string `text`.
NoPayload ==
    [tc |-> "missing", name |-> QEmpty, inp |-> "missing", qt |-> "missing",
     text |-> QEmpty]

HttpPayloads ==
    { NoPayload, [NoPayload EXCEPT !.tc = "nondict"] }
    \cup { [NoPayload EXCEPT !.tc = "dict", !.name = NExecuteQuery,
                             !.inp = "dict", !.qt = "str", !.text = t] :
               t \in {QSelectNames, QDeleteUsers} }
    \cup { [NoPayload EXCEPT !.tc = "dict", !.name = NExecuteQuery,
                             !.inp = "nondict"] }
    \cup { [NoPayload EXCEPT !.tc = "dict", !.name = NQuerySql, !.inp = i] :
               i \in {"missing", "nondict"} }
    \cup { [NoPayload EXCEPT !.tc = "dict", !.name = NQuerySql,
                             !.inp = "dict", !.qt = t] :
               t \in {"missing", "nonstr"} }
    \cup { [NoPayload EXCEPT !.tc = "dict", !.name = NQuerySql,
                             !.inp = "dict", !.qt = "str", !.text = t] :
               t \in Texts }

\* An exception other than HTTPException leaving the handler.
HttpFault(s) ==
    [kind |-> "fault", value |-> [exception |-> "AttributeError"],
     cause |-> "fault", opened |-> 0, closed |-> 0, handed |-> FALSE,
     users |-> s.users, hasQuery |-> FALSE, query |-> QEmpty, status |-> 0]

\* McpToolHandler with a fault: the gate is tested before the tool name.
McpToolHandlerGateFirst(p, s) ==
    IF p.tc = "nondict" THEN { HttpFault(s) }
    ELSE IF p.tc = "dict" /\ p.inp = "nondict" THEN { HttpFault(s) }
    ELSE IF p.tc = "dict" /\ p.inp = "dict" /\ p.qt = "nonstr" THEN { HttpFault(s) }
    ELSE LET query == IF p.tc = "missing" \/ p.inp = "missing" \/ p.qt = "missing"
                      THEN QEmpty ELSE p.text
         IN  IF ~HttpAllowed(query)
             THEN { [Outcome("HTTPException",
                             [detail |-> "Only SELECT queries are allowed"],
                             "denied", 0, 0, FALSE, s.users, TRUE, query)
                        EXCEPT !.status = 403] }
             ELSE IF p.tc = "missing" \/ p.name # NQuerySql
             THEN { [Outcome("HTTPException", [detail |-> "Unsupported tool"],
                             "unsupported", 0, 0, FALSE, s.users, FALSE, QEmpty)
                        EXCEPT !.status = 400] }
             ELSE LET Returned(r) ==
                          IF r.ok
                          THEN { [Outcome("envelope",
                                          [tool_response |->
                                              [output |->
                                                  [result |-> HttpResult(r, rows)]]],
                                          "rows", 1, 1, TRUE, s.users, TRUE, query)
                                     EXCEPT !.status = 200]
                                 : rows \in FetchAll(r) }
                          ELSE { [Outcome("HTTPException", [detail |-> r.msg],
                                          "engine_error", 1, 0, TRUE, s.users,
                                          TRUE, query)
                                     EXCEPT !.status = 500] }
                  IN  UNION { Returned(r) : r \in Execute(query, s) }

\* mcp_tool_handler(payload) on the store s: the set of outcomes. The
\* statement runs on a fresh connection that is closed on the success path
\* only and never committed.
McpToolHandler(p, s) ==
    IF p.tc = "nondict" THEN { HttpFault(s) }
    ELSE IF p.tc = "missing" \/ p.name # NQuerySql
    THEN { [Outcome("HTTPException", [detail |-> "Unsupported tool"],
                    "unsupported", 0, 0, FALSE, s.users, FALSE, QEmpty)
               EXCEPT !.status = 400] }
    ELSE IF p.inp = "nondict" THEN { HttpFault(s) }
    ELSE IF p.inp = "dict" /\ p.qt = "nonstr" THEN { HttpFault(s) }
    ELSE LET query == IF p.inp = "missing" \/ p.qt = "missing"
                      THEN QEmpty ELSE p.text
         IN  IF ~HttpAllowed(query)
             THEN { [Outcome("HTTPException",
                             [detail |-> "Only SELECT queries are allowed"],
                             "denied", 0, 0, FALSE, s.users, TRUE, query)
                        EXCEPT !.status = 403] }
             ELSE LET Returned(r) ==
                          IF r.ok
                          THEN { [Outcome("envelope",
                                          [tool_response |->
                                              [output |->
                                                  [result |-> HttpResult(r, rows)]]],
                                          "rows", 1, 1, TRUE, s.users, TRUE, query)
                                     EXCEPT !.status = 200]
                                 : rows \in FetchAll(r) }
                          ELSE { [Outcome("HTTPException", [detail |-> r.msg],
                                          "engine_error", 1, 0, TRUE, s.users,
                                          TRUE, query)
                                     EXCEPT !.status = 500] }
                  IN  UNION { Returned(r) : r \in Execute(query, s) }

----------------------------------------------------------------------------
(* Bootstrap.                                                              *)

\* The statements of a bootstrap, in order: CREATE TABLE users, CREATE TABLE
\* posts, two INSERTs into users, two INSERTs into posts.
SeedSteps == 6

MaxOf(a, b) == IF a >= b THEN a ELSE b

\* The store file after the first k statements took effect.
Applied(k) ==
    [exists |-> TRUE,
     tables |-> (IF k >= 1 THEN {"users"} ELSE {})
                \cup (IF k >= 2 THEN {"posts"} ELSE {}),
     users |-> SubSeq(SeedUsers, 1, MinOf(MaxOf(k - 2, 0), 2)),
     posts |-> SubSeq(SeedPosts, 1, MinOf(MaxOf(k - 4, 0), 2)),
     seeded |-> (k = SeedSteps)]

\* main.py, the start-up block, with the script failing after k statements
\* (k = SeedSteps: no failure). sqlite3.connect creates the file, and
\* executescript leaves the statements that ran in place; nothing removes
\* the file before RuntimeError is raised.
HttpBootstrap(k) == Applied(k)

\* _setup_database, failing after k statements (k = SeedSteps: no failure).
\* The CREATE TABLE statements take effect at once; the INSERTs are in a
\* transaction that only the final conn.commit() makes durable.
StdioBootstrap(k) ==
    IF k = SeedSteps THEN Applied(k) ELSE Applied(MinOf(k, 2))

----------------------------------------------------------------------------
(* State.                                                                  *)
(*   variant  the program deployed: "http" (main.py) or "stdio"            *)
(*            (sqlite_mcp_server.py); fixed from the start                 *)
(*   proc     "down" or "serving": whether the process accepts calls       *)
(*   db       the store file                                               *)
(*   open     connections of the process that are open: `boot` the one the  *)
(*            start-up block made and never closes, `calls` those that     *)
(*            calls left open and that are not finalised yet; when `more`  *)
(*            is set there are more than MaxOpen of these                  *)
(*   last     the last operation: entry point, request, outcome, and the   *)
(*            store contents before it; `repeat` and `prev` compare a      *)
(*            returned row sequence with the remembered one                *)
(* History kept for the properties:                                        *)
(*   memo     a remembered (query, rows) of an earlier successful select,  *)
(*            dropped when a call commits to the store or the process ends; *)
(*            `failed` once a later call was denied or failed              *)

NoOutcome ==
    Outcome("none", [none |-> TRUE], "none", 0, 0, FALSE, <<>>, FALSE, QEmpty)

NoMemo == [set |-> FALSE, q |-> QEmpty, rows |-> <<>>, failed |-> FALSE]

Step(e, rq, o, s, rep, pv) ==
    [ep |-> e, req |-> rq, out |-> o, pre |-> Contents(s),
     repeat |-> rep.same, between |-> rep.failed, prev |-> pv]

NoRepeat == [same |-> FALSE, failed |-> FALSE]

\* The causes of a call that was denied or failed.
FailedCauses == {"denied", "engine_error", "fault", "caught"}

\* The row sequence a successful select returned.
RowsOf(o) ==
    IF o.kind = "envelope" THEN o.value.tool_response.output.result
    ELSE o.value.data

NoneOpen == [boot |-> 0, calls |-> 0, more |-> FALSE]

Init ==
    /\ variant \in Variants
    /\ proc = "down"
    /\ db = NoFile
    /\ open = NoneOpen
    /\ last = Step("none", NoPayload, NoOutcome, NoFile, NoRepeat, <<>>)
    /\ memo = NoMemo

\* Process start of the HTTP variant: the module body of main.py. An
\* existing file skips the bootstrap; a bootstrap ends in RuntimeError when
\* the download fails (k = -1, no file made) or the script fails. After a
\* bootstrap that succeeds, the connection of `with sqlite3.connect(...)`
\* is committed, not closed, and stays open with the module.
StartHttp ==
    /\ variant = "http"
    /\ proc = "down"
    /\ \E k \in -1..SeedSteps :
         /\ db.exists => k = SeedSteps
         /\ db' = IF db.exists \/ k = -1 THEN db ELSE HttpBootstrap(k)
         /\ proc' = IF k = SeedSteps THEN "serving" ELSE "down"
         /\ open' = IF ~db.exists /\ k = SeedSteps
                    THEN [NoneOpen EXCEPT !.boot = 1]
                    ELSE NoneOpen
    /\ last' = Step("start", NoPayload, NoOutcome, db, NoRepeat, <<>>)
    /\ UNCHANGED <<variant, memo>>

\* Process start of the stdio variant: main() constructing SQLiteMCPServer.
\* An existing file skips _setup_database's body; the body ends in an
\* exception when sqlite3.connect fails (k = -1, no file made) or a
\* statement fails.
StartStdio ==
    /\ variant = "stdio"
    /\ proc = "down"
    /\ \E k \in -1..SeedSteps :
         /\ db.exists => k = SeedSteps
         /\ db' = IF db.exists \/ k = -1 THEN db ELSE StdioBootstrap(k)
         /\ proc' = IF k = SeedSteps THEN "serving" ELSE "down"
    /\ last' = Step("start", NoPayload, NoOutcome, db, NoRepeat, <<>>)
    /\ UNCHANGED <<variant, open, memo>>

\* The process ends; its open connections end with it.
Stop ==
    /\ proc = "serving"
    /\ proc' = "down"
    /\ open' = NoneOpen
    /\ memo' = NoMemo
    /\ last' = Step("stop", NoPayload, NoOutcome, db, NoRepeat, <<>>)
    /\ UNCHANGED <<variant, db>>

\* The effect on the state of a completed call with outcome o. The call is
\* answered however many connections earlier calls left open.
Return(e, rq, o) ==
    LET isRows == o.cause = "rows"
        rep == isRows /\ memo.set /\ memo.q = o.query
        held == open.calls + o.opened - o.closed
    IN  /\ open' = IF open.more \/ held > MaxOpen
                   THEN [open EXCEPT !.calls = MaxOpen, !.more = TRUE]
                   ELSE [open EXCEPT !.calls = held]
        /\ db' = [db EXCEPT !.users = o.users]
        /\ last' = Step(e, rq, o, db,
                        [same |-> rep, failed |-> rep /\ memo.failed],
                        IF rep THEN memo.rows ELSE <<>>)
        /\ memo' = IF isRows /\ ~memo.set
                   THEN [set |-> TRUE, q |-> o.query, rows |-> RowsOf(o),
                         failed |-> FALSE]
                   ELSE IF o.cause = "written" THEN NoMemo
                   ELSE IF memo.set /\ o.cause \in FailedCauses
                   THEN [memo EXCEPT !.failed = TRUE]
                   ELSE memo
        /\ UNCHANGED <<variant, proc>>

\* The caller drops the exception of a call that left its connection
\* open: the connection is no longer referenced and the interpreter
\* finalises it, which closes it. Of more than MaxOpen connections,
\* MaxOpen or still more are left.
Finalize ==
    /\ open.calls > 0
    /\ IF open.more
       THEN open' \in {open, [open EXCEPT !.more = FALSE]}
       ELSE open' = [open EXCEPT !.calls = open.calls - 1]
    /\ UNCHANGED <<variant, proc, db, last, memo>>

\* POST /mcp
HttpCall ==
    /\ variant = "http"
    /\ proc = "serving"
    /\ \E p \in HttpPayloads :
         \E o \in McpToolHandler(p, db) :
            Return("mcp_tool_handler", p, o)

\* A tool call over stdio
StdioCall ==
    /\ variant = "stdio"
    /\ proc = "serving"
    /\ \E name \in ToolNames :
         \E a \in StdioArguments(name) :
            \E o \in HandleCallTool(name, a, db) :
               Return("handle_call_tool", [name |-> name, a |-> a], o)

\* A resource read over stdio
ReadResource ==
    /\ variant = "stdio"
    /\ proc = "serving"
    /\ \E uri \in ResourceUris :
         Return("handle_read_resource", [uri |-> uri],
                HandleReadResource(uri, db))

Next ==
    \/ StartHttp
    \/ StartStdio
    \/ Stop
    \/ Finalize
    \/ HttpCall
    \/ StdioCall
    \/ ReadResource

Spec == Init /\ [][Next]_vars

----------------------------------------------------------------------------
(* Properties.                                                             *)

CallEntryPoints == {"mcp_tool_handler", "handle_call_tool", "handle_read_resource"}

Called == last.ep \in CallEntryPoints

\* The policy rule: the trimmed, case-folded text begins with `select`.
SelectPrefixed(q) == StartsWith(ToLower(Strip(q)), KwSelect)

\* 'random'
KwRandom == Text(<<"r", "a", "n", "d", "o", "m">>)

\* The statement calls the engine's random().
UsesRandom(q) == Contains(ToLower(q), KwRandom)

\* C1: at both entry points a query whose trimmed, lower-cased text does not
\* start with select is denied: it is never handed to the store and the
\* call never returns rows or success.
C1_NonSelectIsDenied ==
    (Called /\ last.out.hasQuery /\ ~SelectPrefixed(last.out.query))
        => /\ ~last.out.handed
           /\ last.out.cause \notin {"rows", "written"}

\* C2: once the bootstrap has completed, no call changes the contents of
\* the store.
C2_CallsLeaveStoreUnchanged ==
    (Called /\ db.seeded) => Contents(db) = last.pre

\* C3: a denied query returns the denial outcome, opens no store connection,
\* is not handed to the engine and leaves the store contents as they were,
\* at the HTTP handler and at the stdio _execute_query.
C3_DeniedOpensNothing ==
    (Called /\ last.out.cause = "denied")
        => /\ last.out.opened = 0
           /\ ~last.out.handed
           /\ Contents(db) = last.pre
           /\ variant = "http" => last.out.status = 403
           /\ variant = "stdio" => last.out.value = DeniedValue(last.out.query)

\* C3 witness: 'DELETE FROM users' was denied over stdio on the seeded
\* store, whose users table still holds its two rows.
C3_Witness ==
    /\ variant = "stdio"
    /\ last.ep = "handle_call_tool"
    /\ last.out.cause = "denied"
    /\ last.out.query = QDeleteUsers
    /\ db.seeded
    /\ Len(db.users) = 2

\* C4: every connection a call opened is closed when the call returns, so
\* no connection opened by a call is open after completed calls.
C4_ConnectionsClosedOnReturn ==
    Called => (last.out.opened = last.out.closed /\ open.calls = 0)

\* C5: the gateway serves calls only over a store whose bootstrap ran to
\* its end, also after an earlier start failed part-way.
C5_ServesOnlySeededStore ==
    proc = "serving" => db.seeded

\* The query text the HTTP handler reads from a body.
PayloadQuery(p) ==
    IF p.inp = "missing" \/ p.qt = "missing" THEN QEmpty ELSE p.text

\* The body names the tool query_sql.
NamesQuerySql(p) == p.tc = "dict" /\ p.name = NQuerySql

\* The fields the handler reads from the body have the types it expects.
WellTyped(p) ==
    /\ p.tc # "nondict"
    /\ NamesQuerySql(p) => (p.inp # "nondict" /\ ~(p.inp = "dict" /\ p.qt = "nonstr"))

\* C6: the HTTP handler answers, in this order: 400 for a tool name other
\* than query_sql whatever the query text; else 403 for a query that is not
\* select-prefixed; else 500 carrying the engine's message when the engine
\* fails; else the envelope with the rows. No engine call precedes a 400 or
\* a 403.
C6_HttpOutcomeClasses ==
    (last.ep = "mcp_tool_handler" /\ WellTyped(last.req))
        => LET p == last.req
               o == last.out
               q == PayloadQuery(p)
           IN  /\ ~NamesQuerySql(p)
                    => (o.status = 400 /\ o.opened = 0 /\ ~o.handed)
               /\ (NamesQuerySql(p) /\ ~SelectPrefixed(q))
                    => (o.status = 403 /\ o.opened = 0 /\ ~o.handed)
               /\ (NamesQuerySql(p) /\ SelectPrefixed(q))
                    => \E r \in Execute(q, last.pre) :
                          IF r.ok
                          THEN /\ o.status = 200
                               /\ o.kind = "envelope"
                               /\ o.value.tool_response.output.result
                                      = HttpResult(r, r.rows)
                          ELSE /\ o.status = 500
                               /\ o.value.detail = r.msg

\* C6 witness: a select-prefixed query on a missing table ended in 500 with
\* the engine's message.
C6_Witness ==
    /\ last.ep = "mcp_tool_handler"
    /\ last.req.name = NQuerySql
    /\ last.out.query = QSelectMissing
    /\ last.out.status = 500
    /\ last.out.value.detail = "no such table: nope"

\* C7: what _execute_query returns when the engine raises differs in shape
\* from what it returns for a denied query.
C7_DenialDistinctFromFailure ==
    (last.ep = "handle_call_tool" /\ last.out.cause = "engine_error")
        => DOMAIN last.out.value # DOMAIN DeniedValue(last.out.query)

\* C8: every call ends in a typed outcome: handle_call_tool in a
\* TextContent list, mcp_tool_handler in the envelope or an HTTPException
\* 400/403/500; no other exception leaves a handler.
C8_AlwaysTypedOutcome ==
    /\ Called => last.out.kind # "fault"
    /\ last.ep = "handle_call_tool" => last.out.kind = "TextContent"
    /\ last.ep = "mcp_tool_handler"
         => \/ last.out.kind = "envelope" /\ last.out.status = 200
            \/ last.out.kind = "HTTPException"
                 /\ last.out.status \in {400, 403, 500}

\* C9: the same select query, issued again with no write in between,
\* returns the same row sequence.
C9_SameQuerySameRows ==
    last.repeat => RowsOf(last.out) = last.prev

\* C9, amended: the same select query that calls no random(), issued again
\* with no write in between, returns the same row sequence, also when
\* denied or failing calls came in between.
C9_DeterministicQuerySameRows ==
    (last.repeat /\ ~UsesRandom(last.out.query))
        => RowsOf(last.out) = last.prev

\* C9 witness: a select over the users table was repeated after a denied or
\* failing call and returned rows.
C9_Witness ==
    /\ last.repeat
    /\ last.between
    /\ last.out.query = QSelectNames
    /\ Len(last.prev) = 2

\* Two column names are the same name.
SameName(a, b) == a = b

\* Two column names match for sqlite3.Row: the same name, or two names of
\* ASCII characters that differ in letter case only.
MatchingName(a, b) ==
    \/ a = b
    \/ /\ \A i \in 1..Len(a) : a[i] \in 0..127
       /\ \A i \in 1..Len(b) : b[i] \in 0..127
       /\ ToLower(a) = ToLower(b)

\* The rows returned by the last call are the engine's rows, each name
\* carrying the value of the column Pick chooses among those whose name is
\* Alike to it.
RowsTake(Pick(_), Alike(_, _)) ==
    \E r \in Execute(last.out.query, last.pre) :
        /\ r.ok
        /\ Len(RowsOf(last.out)) = Len(r.rows)
        /\ \A i \in 1..Len(r.rows) :
              /\ DOMAIN RowsOf(last.out)[i] = ColumnNames(r.desc)
              /\ \A c \in ColumnNames(r.desc) :
                    RowsOf(last.out)[i][c]
                        = r.rows[i][Pick({k \in 1..Len(r.desc) : Alike(r.desc[k], c)})]

\* C10: with result columns of the same name, each returned row keeps one
\* entry for the name, holding the value of the right-most such column, at
\* both entry points.
C10_LastDuplicateWins ==
    last.out.cause = "rows" => RowsTake(Latest, SameName)

\* C10, amended: each returned row keeps one entry for the name. In the
\* HTTP handler (dict(zip(cols, row))) it holds the value of the right-most
\* column of that name. In the stdio _execute_query (dict(row) over
\* sqlite3.Row) it holds the value of the left-most column whose name
\* matches it: the same name, or, both being ASCII, one that differs from
\* it in letter case only.
C10_DuplicateColumnValue ==
    last.out.cause = "rows"
        => /\ variant = "http" => RowsTake(Latest, SameName)
           /\ variant = "stdio" => RowsTake(First, MatchingName)

\* C10 witness: 'SELECT 1 AS A, 2 AS a, 3 AS a' returned one row over
\* stdio, with entries for A and for a.
C10_Witness ==
    /\ variant = "stdio"
    /\ last.out.cause = "rows"
    /\ last.out.query = QSelectMixedCase
    /\ Len(RowsOf(last.out)) = 1
    /\ Cardinality(DOMAIN RowsOf(last.out)[1]) = 2

====
